---- MODULE Spec2Model ----
(***************************************************************************)
(* Form-filling agent (app/formfiller): the session state kept by the      *)
(* graph's checkpointer, the two graph steps analyze_form and              *)
(* process_field_input, the routing function, the start/continue helpers   *)
(* of graph.py and the HTTP endpoints of api.py and app_integration.py.    *)
(*                                                                         *)
(* Python values are modelled as records tagged with their type in t:      *)
(* None, str and dict; a list is a sequence; a dict keyed by field id is a *)
(* function whose domain is the set of keys.  A Python dict with optional  *)
(* keys (the graph state, a parsed extraction result, a returned result)   *)
(* is a record whose DOMAIN is the set of keys present.                    *)
(***************************************************************************)
EXTENDS Integers, Sequences, FiniteSets, TLC

VARIABLES store, uuidCount, last

vars == <<store, uuidCount, last>>

(***************************************************************************)
(* Bounds of the model.                                                    *)
(***************************************************************************)
\* sessions that start_form_filling / a fresh uuid4 may create
MaxThreads == 2
\* longest missing_fields list the extraction collaborator returns
MaxMissing == 2

(***************************************************************************)
(* Python values.                                                          *)
(***************************************************************************)
None == [t |-> "None"]

Str(s) == [t |-> "str", v |-> s]

EmptyDict == [k \in {} |-> None]

EmptyList == <<>>

\* dict.get(key, default)
Get(d, k, default) == IF k \in DOMAIN d THEN d[k] ELSE default

\* {**d, **u}
Merge(d, u) == [k \in DOMAIN d \cup DOMAIN u |-> IF k \in DOMAIN u THEN u[k] ELSE d[k]]

\* Python truthiness of None, a str or a dict value
Truthy(x) ==
    CASE x.t = "None" -> FALSE
      [] x.t = "str" -> x.v # ""
      [] OTHER -> TRUE

\* the positions of a list, in order
Range(s) == {s[i] : i \in DOMAIN s}

(***************************************************************************)
(* Form fields and missing-field entries.                                  *)
(***************************************************************************)
FieldIds == {"A", "B"}

\* a field of the request's formFields (api.py get_schema example)
FormFieldOf(id) ==
    [data_id |-> id, field_label |-> "Label", field_type |-> "text",
     field_value |-> "", is_required |-> TRUE]

\* the registries a session is started with: N = 1 and N = 2 fields
Registries == {<<FormFieldOf("A")>>, <<FormFieldOf("A"), FormFieldOf("B")>>}

RegistryIds(fields) == {fields[i].data_id : i \in DOMAIN fields}

\* a complete missing-field object, as the prompt asks the model to return it
FullRecord(id) ==
    [t |-> "dict", data_id |-> Str(id), field_label |-> "Label", field_type |-> "text",
     field_value |-> "", is_required |-> TRUE, validation_message |-> "needed"]

\* the id an entry of missing_fields names: a bare id string or a record's data_id
EntryId(e) == IF e.t = "str" THEN e.v ELSE e.data_id.v

MissingIds(missing) == {EntryId(missing[i]) : i \in DOMAIN missing}

(***************************************************************************)
(* Raw model output.  A text is a sequence of tokens: whitespace "ws", a   *)
(* backtick "bt", the prefix "Final Answer:" ("FA"), a prose word "w", the  *)
(* brace characters "{" and "}", and "body": the text between the braces   *)
(* of one object, with its syntax (json: valid JSON members; py: a Python  *)
(* dict literal that is no JSON, e.g. single quotes or True/None; pyset: a *)
(* Python set literal; bad: neither) and the value it denotes.             *)
(***************************************************************************)
Tok(c) == [c |-> c]

Body(syn, val) == [c |-> "body", syn |-> syn, val |-> val]

\* the text of one object: { members }
ObjectText(syn, val) == <<Tok("{"), Body(syn, val), Tok("}")>>

RECURSIVE LStrip(_, _)
\* s without its leading tokens of the set cs
LStrip(s, cs) == IF s # <<>> /\ Head(s).c \in cs THEN LStrip(Tail(s), cs) ELSE s

RECURSIVE RStrip(_, _)
\* s without its trailing tokens of the set cs
RStrip(s, cs) ==
    IF s # <<>> /\ s[Len(s)].c \in cs THEN RStrip(SubSeq(s, 1, Len(s) - 1), cs) ELSE s

\* str.strip() and str.strip(backtick)
Strip(s, cs) == RStrip(LStrip(s, cs), cs)

\* output.strip().strip(backtick).strip(), then the "Final Answer:" prefix removed
CleanOutput(output) ==
    LET o == Strip(Strip(Strip(output, {"ws"}), {"bt"}), {"ws"})
    IN IF o # <<>> /\ Head(o).c = "FA" THEN Strip(Tail(o), {"ws"}) ELSE o

\* re.search(r"({.*})", output, re.DOTALL): greedy, from the first "{" that has a
\* "}" after it to the last "}" of the text; <<>> when there is no match
RegexBlock(o) ==
    LET opens == {i \in DOMAIN o : o[i].c = "{"}
        closes == {i \in DOMAIN o : o[i].c = "}"}
        starts == {i \in opens : \E j \in closes : j > i}
    IN IF starts = {} THEN <<>>
       ELSE LET i == CHOOSE x \in starts : \A y \in starts : x <= y
                j == CHOOSE x \in closes : \A y \in closes : y <= x
            IN SubSeq(o, i, j)

\* json.loads(json_str): the value of the object, or ok = FALSE for JSONDecodeError
JsonLoads(block) ==
    IF Len(block) = 2 THEN [ok |-> TRUE, val |-> [t |-> "dict", d |-> EmptyDict]]
    ELSE IF Len(block) = 3 /\ block[2].c = "body" /\ block[2].syn = "json"
         THEN [ok |-> TRUE, val |-> [t |-> "dict", d |-> block[2].val]]
         ELSE [ok |-> FALSE, val |-> None]

\* ast.literal_eval(json_str): a dict, a set, or ok = FALSE for any exception
LiteralEval(block) ==
    IF Len(block) = 3 /\ block[2].c = "body" /\ block[2].syn = "py"
    THEN [ok |-> TRUE, val |-> [t |-> "dict", d |-> block[2].val]]
    ELSE IF Len(block) = 3 /\ block[2].c = "body" /\ block[2].syn = "pyset"
         THEN [ok |-> TRUE, val |-> [t |-> "set"]]
         ELSE [ok |-> FALSE, val |-> None]

\* extract_json_from_output from the match on: the block parsed as JSON, else as a
\* Python literal, else a dict with the keys error, exception and raw_output
parse_block(json_str, as_json, as_literal) ==
    IF as_json.ok THEN as_json.val
    ELSE IF as_literal.ok THEN as_literal.val
         ELSE [t |-> "dict",
               d |-> [error |-> Str("Failed to parse"), exception |-> Str("exception"),
                      raw_output |-> json_str]]

\* extract_json_from_output after the clean-up of the output: no match gives a dict
\* with the keys error and raw_output
search_block(o, json_str) ==
    IF json_str = <<>>
    THEN [t |-> "dict", d |-> [error |-> Str("No valid JSON found"), raw_output |-> o]]
    ELSE parse_block(json_str, JsonLoads(json_str), LiteralEval(json_str))

\* extract_json_from_output: the parsed value or an error dict; it never returns a
\* str
extract_json_from_output(output) ==
    search_block(CleanOutput(output), RegexBlock(CleanOutput(output)))

(***************************************************************************)
(* The graph state and the two steps of graph.py.  Every text (a user      *)
(* message, a response message, a history entry) is a sequence of tokens.  *)
(***************************************************************************)
\* the keys of FormFillerState: the channels of the graph state
StateKeys ==
    {"user_message", "form_fields", "filled_fields", "missing_fields", "current_field",
     "conversation_history", "status", "response_message", "thread_id"}

\* the fixed completion message of analyze_form
CompletionMessage == <<Tok("Great"), Tok("filled"), Tok("form")>>

\* the default clarification text of process_field_input
DefaultClarification == <<Tok("Please"), Tok("provide"), Tok("correct")>>

\* what a step hands back: the dict it returns, or the exception it raises, with the
\* number of calls it made to the field-extraction collaborator
Return(out, n) == [exc |-> "", out |-> out, field_calls |-> n]

Raise(e) == [exc |-> e, out |-> EmptyDict, field_calls |-> 0]

\* the answer of process_field_executor for one field, by the kind of answer:
\* form_data is the dict json.loads yields (lines 251-255)
FieldFormData(kind, field) ==
    CASE kind = "success" ->
           [current_field_details |->
                Merge(field, [field_value |-> "42", validation_message |-> ""]),
            success |-> TRUE]
      [] kind = "failure" ->
           [current_field_details |->
                Merge(field, [field_value |-> "", validation_message |-> "explain"]),
            success |-> FALSE,
            message |-> <<Tok("clarify")>>]
      [] OTHER -> [status |-> "failed", message |-> <<Tok("Invalid"), Tok("input")>>]

ReplyKinds == {"success", "failure", "unparsable"}
\* Faulty variant of process_field_input: the test of the status is inverted.
process_field_input_inverted(state, reply, fresh) ==
    Return(Merge(state,
                 [status |-> IF Get(state, "missing_fields", EmptyList) = <<>>
                             THEN "awaiting_info" ELSE "completed",
                  thread_id |-> Get(state, "thread_id", fresh)]), 0)

\* Faulty variant of process_field_input: the field asked for is dropped from
\* missing_fields whatever the answer was, and the next one becomes current.
process_field_input_advance(state, reply, fresh) ==
    LET missing_fields == Get(state, "missing_fields", EmptyList)
        rest == IF missing_fields = <<>> THEN <<>> ELSE Tail(missing_fields)
    IN Return(Merge(state,
                    [missing_fields |-> rest,
                     current_field |-> IF rest = <<>> THEN None ELSE rest[1],
                     status |-> IF rest = <<>> THEN "completed" ELSE "awaiting_info",
                     thread_id |-> Get(state, "thread_id", fresh)]), 0)

\* Faulty variant of process_field_input: the field asked for is forgotten when the
\* step returns.
process_field_input_clears(state, reply, fresh) ==
    Return(Merge(state,
                 [status |-> IF Get(state, "missing_fields", EmptyList) = <<>>
                             THEN "completed" ELSE "awaiting_info",
                  current_field |-> None,
                  thread_id |-> Get(state, "thread_id", fresh)]), 0)

\* Faulty variant of process_field_input: the state is returned with an empty
\* conversation_history.
process_field_input_forgets(state, reply, fresh) ==
    Return(Merge(state,
                 [status |-> IF Get(state, "missing_fields", EmptyList) = <<>>
                             THEN "completed" ELSE "awaiting_info",
                  conversation_history |-> EmptyList,
                  thread_id |-> Get(state, "thread_id", fresh)]), 0)

\* Faulty variant of process_field_input: the state is returned with a thread_id
\* that is the one of no session.
process_field_input_anonymous(state, reply, fresh) ==
    Return(Merge(state,
                 [status |-> IF Get(state, "missing_fields", EmptyList) = <<>>
                             THEN "completed" ELSE "awaiting_info",
                  thread_id |-> 0 - 1]), 0)

\* Faulty variant of process_field_input: the state is returned with an empty
\* form_fields.
process_field_input_unregistered(state, reply, fresh) ==
    Return(Merge(state,
                 [status |-> IF Get(state, "missing_fields", EmptyList) = <<>>
                             THEN "completed" ELSE "awaiting_info",
                  form_fields |-> EmptyList,
                  thread_id |-> Get(state, "thread_id", fresh)]), 0)

\* Faulty variant of process_field_input: the state is returned with the status
\* in_progress.
process_field_input_in_progress(state, reply, fresh) ==
    Return(Merge(state,
                 [status |-> "in_progress",
                  thread_id |-> Get(state, "thread_id", fresh)]), 0)

RECURSIVE process_field_input(_, _, _)

\* process_field_input, lines 230-308: the call of the collaborator and the update
\* of the state from its answer
process_field_reply(state, reply, fresh) ==
    LET user_message == state.user_message
        filled_fields == Get(state, "filled_fields", EmptyDict)
        form_fields == Get(state, "form_fields", EmptyList)
        missing_fields == Get(state, "missing_fields", EmptyList)
        conversation_history == Get(state, "conversation_history", EmptyList)
        current_field == Get(state, "current_field", None)
        thread_id == Get(state, "thread_id", fresh)
        field == current_field
        form_data == FieldFormData(reply, field)
        history == Append(conversation_history, [role |-> "user", content |-> user_message])
        details == Get(form_data, "current_field_details", None)
        success == Get(form_data, "success", FALSE)
    IN IF field.t # "dict" THEN Raise("AttributeError")
       ELSE IF details.t = "dict" /\ success
       THEN LET filled2 == Merge(filled_fields, [k \in {details.data_id.v} |-> details])
                missing2 == SelectSeq(missing_fields,
                                      LAMBDA f : EntryId(f) # details.data_id.v)
                current2 == IF missing2 # <<>> THEN missing2[1] ELSE None
                status == IF missing2 = <<>> THEN "completed" ELSE "awaiting_info"
                response_text == Get(form_data, "message", <<>>)
            IN IF Truthy(current2)
               THEN LET r == process_field_input(
                                 Merge(state, [filled_fields |-> filled2,
                                               missing_fields |-> missing2,
                                               current_field |-> current2,
                                               conversation_history |-> history,
                                               status |-> status,
                                               response |-> response_text,
                                               thread_id |-> thread_id]),
                                 reply, fresh)
                    IN [r EXCEPT !.field_calls = @ + 1]
               ELSE Return(Merge(state, [filled_fields |-> filled2,
                                         form_fields |-> form_fields,
                                         missing_fields |-> missing2,
                                         current_field |-> current2,
                                         conversation_history |-> history,
                                         status |-> status,
                                         response |-> response_text,
                                         thread_id |-> thread_id]), 1)
       ELSE LET response_text == Get(form_data, "message", DefaultClarification)
            IN Return(Merge(state,
                            [conversation_history |->
                                 Append(history, [role |-> "assistant",
                                                  content |-> response_text]),
                             status |-> "awaiting_info",
                             response |-> response_text,
                             thread_id |-> thread_id]), 1)

\* Faulty variant of process_field_input: the repeated test of line 223 is gone, so
\* the collaborator is asked, and after a fill the step calls itself on the next
\* missing field with the same user message.
process_field_input_live(state, reply, fresh) ==
    IF \/ ~Truthy(Get(state, "current_field", None))
       \/ Get(state, "missing_fields", EmptyList) = <<>>
    THEN Return(Merge(state,
                      [status |-> IF Get(state, "missing_fields", EmptyList) = <<>>
                                  THEN "completed" ELSE "awaiting_info",
                       thread_id |-> Get(state, "thread_id", fresh)]), 0)
    ELSE process_field_reply(state, reply, fresh)

\* process_field_input.  The test of line 214 is repeated at line 223 on the same
\* values (lines 215-220 read them again from the unchanged state), so the return of
\* line 224 is always taken and lines 230-308 are never reached; with a current
\* field and a non-empty missing_fields the else of line 309 returns the state.
process_field_input(state, reply, fresh) ==
    LET missing_fields == Get(state, "missing_fields", EmptyList)
        current_field == Get(state, "current_field", None)
        thread_id == Get(state, "thread_id", fresh)
        nothing_to_ask == ~Truthy(current_field) \/ missing_fields = <<>>
        recomputed ==
            Merge(state,
                  [status |-> IF missing_fields = <<>> THEN "completed" ELSE "awaiting_info",
                   thread_id |-> thread_id])
    IN IF nothing_to_ask
       THEN IF nothing_to_ask
            THEN Return(recomputed, 0)
            ELSE process_field_reply(state, reply, fresh)
       ELSE Return(recomputed, 0)

\* analyze_form from line 141 on: cleaned_str is what extract_json_from_output
\* returned.  A value that is neither a str nor a dict has no get (line 158).
analyze_parsed(state, cleaned_str, reply, fresh) ==
    LET user_message == state.user_message
        form_fields == Get(state, "form_fields", EmptyList)
        conversation_history == Get(state, "conversation_history", EmptyList)
        thread_id == Get(state, "thread_id", fresh)
    IN IF cleaned_str.t = "str"
       THEN Return(Merge(state, [filled_fields |-> EmptyDict,
                                 missing_fields |-> EmptyList,
                                 current_field |-> None,
                                 conversation_history |-> conversation_history,
                                 status |-> "awaiting_info",
                                 response_message |-> cleaned_str.text,
                                 thread_id |-> thread_id]), 0)
       ELSE IF cleaned_str.t # "dict" THEN Raise("AttributeError")
       ELSE
         LET history == Append(conversation_history,
                               [role |-> "user", content |-> user_message])
             missing_fields == Get(cleaned_str.d, "missing_fields", EmptyList)
             filled_fields == Get(cleaned_str.d, "filled_fields", EmptyDict)
             status == IF missing_fields = <<>> THEN "completed" ELSE "awaiting_info"
             current_field == IF missing_fields # <<>> THEN missing_fields[1] ELSE None
             response_message ==
                 IF status = "completed" /\ DOMAIN filled_fields # {}
                 THEN CompletionMessage
                 ELSE Get(cleaned_str.d, "message", <<>>)
             history2 == Append(history, [role |-> "assistant", content |-> response_message])
         IN IF missing_fields # <<>>
            THEN process_field_input(
                     Merge(state, [filled_fields |-> filled_fields,
                                   form_fields |-> form_fields,
                                   missing_fields |-> missing_fields,
                                   current_field |-> current_field,
                                   conversation_history |-> history2,
                                   status |-> "awaiting_info",
                                   response_message |-> response_message,
                                   thread_id |-> thread_id]),
                     reply, fresh)
            ELSE Return(Merge(state, [filled_fields |-> filled_fields,
                                      form_fields |-> form_fields,
                                      missing_fields |-> missing_fields,
                                      current_field |-> current_field,
                                      conversation_history |-> history2,
                                      status |-> status,
                                      response_message |-> response_message,
                                      thread_id |-> thread_id]), 0)

\* what ai_search_tool does, by the outcome of the search: it returns a text (the
\* results, "No results found ...", "Azure Search not configured ..." when there is
\* no client, "Error searching index: ..." for an AzureError), or an exception that
\* is no AzureError leaves it
SearchOutcomes == {"results", "none", "unconfigured", "error", "raises"}

ai_search_tool(outcome) ==
    CASE outcome = "results" -> [exc |-> "", text |-> <<Tok("results")>>]
      [] outcome = "none" -> [exc |-> "", text |-> <<Tok("No"), Tok("results")>>]
      [] outcome = "unconfigured" ->
           [exc |-> "", text |-> <<Tok("Azure"), Tok("Search"), Tok("not"), Tok("configured")>>]
      [] outcome = "error" ->
           [exc |-> "", text |-> <<Tok("Error"), Tok("searching"), Tok("index")>>]
      [] OTHER -> [exc |-> "ToolError", text |-> <<>>]

\* search_tool: the call of ai_search_tool, with no handler around it
search_tool(outcome) == ai_search_tool(outcome)

\* analyze_form.  raw is what its two external calls give in this turn: search is
\* the outcome of search_tool (line 135), llm tells whether the call of
\* analyze_form_executor (line 137) answers or raises, text is response["text"].
\* Neither call has a handler in analyze_form.
analyze_form(state, raw, reply, fresh) ==
    IF search_tool(raw.search).exc # "" THEN Raise(search_tool(raw.search).exc)
    ELSE IF raw.llm = "raises" THEN Raise("TimeoutError")
    ELSE analyze_parsed(state, extract_json_from_output(raw.text), reply, fresh)

\* analyze_form returns a dict: no call raised and the parsed value has a get
analyze_returns(raw) ==
    /\ search_tool(raw.search).exc = ""
    /\ raw.llm = "answers"
    /\ extract_json_from_output(raw.text).t = "dict"

\* the calls of analyze_form_executor a step makes
Asked(node, raw) ==
    IF node = "analyze_form" /\ search_tool(raw.search).exc = "" THEN 1 ELSE 0

\* Faulty variant of route_next_step: a completed state ends the run only when it
\* has a filled field.
route_next_step_filled(state) ==
    IF state.status = "completed" /\ Get(state, "filled_fields", EmptyDict) # EmptyDict
    THEN "__end__"
    ELSE IF state.status = "awaiting_info" THEN "human_input"
    ELSE "analyze_form"

\* Faulty variant of route_next_step: the test for completed is missing, so a
\* completed state is sent to analyze_form again.
route_next_step_restart(state) ==
    IF state.status = "awaiting_info" THEN "human_input" ELSE "analyze_form"

\* route_next_step: the name of the next step ("__end__" is END)
route_next_step(state) ==
    IF state.status = "completed" THEN "__end__"
    ELSE IF state.status = "awaiting_info" THEN "human_input"
    ELSE "analyze_form"

(***************************************************************************)
(* The compiled graph and its checkpointer (graph.py lines 336-354).  The  *)
(* checkpointer keeps, per thread_id, the values of the state channels and *)
(* the step that is still to run ("" when the run has ended).  A step      *)
(* writes the keys of its result that are channels; other keys are         *)
(* dropped.  A branch target that is no node of the graph schedules        *)
(* nothing.                                                                *)
(***************************************************************************)
\* form_filler_graph.add_node: human_input is not added (line 341)
GraphNodes == {"analyze_form", "process_field_input"}

\* the channels a dict writes
ChannelWrites(out) == [k \in DOMAIN out \cap StateKeys |-> out[k]]

ApplyWrites(values, out) == Merge(values, ChannelWrites(out))

\* the target of the conditional edge, as a step to schedule
Scheduled(target) == IF target \in GraphNodes THEN target ELSE ""

RECURSIVE run_graph(_, _, _, _, _, _)

\* the end of a run, with the values and the pending step to checkpoint, the
\* exception a step raised, and the steps run with their input and output
RunEnd(values, next, exc, asked) ==
    [values |-> values, next |-> next, exc |-> exc, steps |-> <<>>,
     field_calls |-> 0, llm_calls |-> asked]

\* a run after one of its steps: rest is the run from the next step on
RunAfter(step, r, asked, rest) ==
    [rest EXCEPT !.steps = <<step>> \o @, !.field_calls = @ + r.field_calls,
                 !.llm_calls = @ + asked]

\* a step of the graph has returned r: its writes are applied and the edge followed
\* (analyze_form -> process_field_input, process_field_input -> route_next_step)
step_done(node, values, r, after, raw, reply, fresh, limit) ==
    IF r.exc # ""
    THEN RunEnd(values, node, r.exc, Asked(node, raw))
    ELSE RunAfter([node |-> node, pre |-> values, post |-> after], r,
                  Asked(node, raw),
                  run_graph(IF node = "analyze_form" THEN "process_field_input"
                            ELSE Scheduled(route_next_step(after)),
                            after, raw, reply, fresh, limit - 1))

step_returned(node, values, r, raw, reply, fresh, limit) ==
    step_done(node, values, r, ApplyWrites(values, r.out), raw, reply, fresh, limit)

\* the run of the graph from a step on, at most limit steps
run_graph(node, values, raw, reply, fresh, limit) ==
    IF node = "" THEN RunEnd(values, "", "", 0)
    ELSE IF limit = 0 THEN RunEnd(values, node, "GraphRecursionError", 0)
    ELSE IF node = "analyze_form"
    THEN step_returned(node, values, analyze_form(values, raw, reply, fresh),
                       raw, reply, fresh, limit)
    ELSE step_returned(node, values, process_field_input(values, reply, fresh),
                       raw, reply, fresh, limit)

NoCheckpoint == [values |-> EmptyDict, next |-> "", last_node |-> ""]

\* compiled_graph.get_state(config): a StateSnapshot, also for a thread that has no
\* checkpoint (its values are then empty)
get_state(st, thread_id) ==
    [values |-> IF thread_id \in DOMAIN st THEN st[thread_id].values ELSE EmptyDict,
     next |-> IF thread_id \in DOMAIN st THEN st[thread_id].next ELSE "",
     config |-> thread_id]

\* not state: a StateSnapshot is a named tuple, falsy only if it had no field
NotSnapshot(snapshot) == DOMAIN snapshot = {}

\* Faulty variant of Put: the checkpointer keeps one state, whatever the thread_id.
Put_shared(st, thread_id, cp) == [k \in DOMAIN st \cup {thread_id} |-> cp]

Put(st, thread_id, cp) ==
    [k \in DOMAIN st \cup {thread_id} |-> IF k = thread_id THEN cp ELSE st[k]]

\* the checkpoint after update_state: the values written and the edges of the step
\* the update counts as
updated(cp, after) ==
    [values |-> after,
     next |-> IF cp.last_node = "process_field_input"
              THEN Scheduled(route_next_step(after))
              ELSE IF cp.last_node = "analyze_form" THEN "process_field_input"
              ELSE "analyze_form",
     last_node |-> cp.last_node]

\* compiled_graph.update_state(config, values): written as the step that last
\* updated the state (START for a thread without one), followed by the edges of
\* that step.  A value that is no dict writes the attributes it has that are named
\* like a channel: a StateSnapshot has none.
update_state(st, thread_id, update) ==
    Put(st, thread_id,
        updated(IF thread_id \in DOMAIN st THEN st[thread_id] ELSE NoCheckpoint,
                Merge(IF thread_id \in DOMAIN st THEN st[thread_id].values
                      ELSE EmptyDict,
                      ChannelWrites(update))))

\* the checkpoint of a thread, or none
Checkpoint(st, thread_id) ==
    IF thread_id \in DOMAIN st THEN st[thread_id] ELSE NoCheckpoint

\* what ainvoke leaves and returns after the run: the checkpoint after the last step
\* that returned; a resumed run in which no step returned writes none
invoked(st, thread_id, cp, resume, run) ==
    [store |-> IF resume /\ run.steps = <<>> THEN st
               ELSE Put(st, thread_id,
                        [values |-> run.values, next |-> run.next,
                         last_node |-> IF run.steps # <<>>
                                       THEN run.steps[Len(run.steps)].node
                                       ELSE IF resume THEN cp.last_node ELSE ""]),
     exc |-> run.exc, result |-> run.values, steps |-> run.steps,
     field_calls |-> run.field_calls, llm_calls |-> run.llm_calls]

\* compiled_graph.ainvoke(None, config): the pending step of the thread is resumed
ainvoke_resume(st, thread_id, cp, raw, reply, fresh) ==
    invoked(st, thread_id, cp, TRUE,
            run_graph(cp.next, cp.values, raw, reply, fresh, 25))

\* compiled_graph.ainvoke(input, config): a run from START on the input
ainvoke_input(st, thread_id, input, raw, reply, fresh) ==
    invoked(st, thread_id, NoCheckpoint, FALSE,
            run_graph("analyze_form", ChannelWrites(input), raw, reply, fresh, 25))

(***************************************************************************)
(* The helpers of graph.py: start_form_filling (the later definition, line *)
(* 448, is the one in force) and continue_form_filling.  uuid4() is a      *)
(* value no earlier uuid4() returned and no client has sent: the next      *)
(* number after uuidCount.                                                 *)
(***************************************************************************)
uuid4(count) == count + 1

\* the dict start_form_filling and continue_form_filling build from the result of
\* the run; result[key] of an absent key raises KeyError
ResultKeys(with_history) ==
    {"response", "status", "filled_fields", "missing_fields", "current_field"}
        \cup (IF with_history THEN {"conversation_history"} ELSE {})

ResultDict(thread_id, result, with_history) ==
    Merge([thread_id |-> thread_id],
          [k \in ResultKeys(with_history) |-> result[k]])

ErrorDict(exc) == [error |-> exc, traceback |-> "traceback"]

\* start_form_filling after the run (lines 476-491): the result dict, or the error
\* dict of the except branch when the run or the building of the result raised
start_returned(thread_id, run) ==
    [store |-> run.store, count |-> thread_id, thread_id |-> thread_id, exc |-> "",
     ret |-> IF run.exc # "" THEN ErrorDict(run.exc)
             ELSE IF ResultKeys(TRUE) \subseteq DOMAIN run.result
             THEN ResultDict(thread_id, run.result, TRUE)
             ELSE ErrorDict("KeyError"),
     steps |-> run.steps, field_calls |-> run.field_calls, llm_calls |-> run.llm_calls]

\* start_form_filling with the uuid4 it drew
start_thread(st, thread_id, user_message, form_fields, raw, reply) ==
    start_returned(
        thread_id,
        ainvoke_input(st, thread_id,
                      [user_message |-> user_message, form_fields |-> form_fields,
                       filled_fields |-> EmptyDict, missing_fields |-> EmptyList,
                       current_field |-> None, conversation_history |-> EmptyList,
                       status |-> "in_progress", response |-> <<>>,
                       thread_id |-> thread_id],
                      raw, reply, thread_id))

\* Faulty variant of start_form_filling: the thread_id is drawn once, when the
\* module is loaded, and every call uses it.
start_form_filling_once(st, count, user_message, form_fields, raw, reply) ==
    start_thread(st, uuid4(0), user_message, form_fields, raw, reply)

start_form_filling(st, count, user_message, form_fields, raw, reply) ==
    start_thread(st, uuid4(count), user_message, form_fields, raw, reply)

\* continue_form_filling after the run (lines 516-530): state is the snapshot read
\* before the turn, written back with update_state
continue_returned(count, thread_id, fresh, state, run) ==
    [store |-> IF run.exc # "" THEN run.store
               ELSE update_state(run.store, thread_id, state),
     count |-> IF /\ thread_id \in DOMAIN run.store
                  /\ "thread_id" \in DOMAIN run.store[thread_id].values
                  /\ run.store[thread_id].values.thread_id = fresh
               THEN fresh ELSE count,
     thread_id |-> thread_id,
     exc |-> IF run.exc # "" THEN run.exc
             ELSE IF ResultKeys(FALSE) \subseteq DOMAIN run.result THEN ""
             ELSE "KeyError",
     ret |-> IF run.exc = "" /\ ResultKeys(FALSE) \subseteq DOMAIN run.result
             THEN ResultDict(thread_id, run.result, FALSE)
             ELSE EmptyDict,
     steps |-> run.steps, field_calls |-> run.field_calls, llm_calls |-> run.llm_calls]

\* continue_form_filling from line 513 on
continue_updated(count, thread_id, state, st1, raw, reply) ==
    continue_returned(count, thread_id, uuid4(count), state,
                      ainvoke_resume(st1, thread_id, Checkpoint(st1, thread_id),
                                     raw, reply, uuid4(count)))

\* continue_form_filling from line 509 on: state is what get_state returned
continue_read(st, count, thread_id, user_message, state, raw, reply) ==
    IF NotSnapshot(state)
    THEN [store |-> st, count |-> count, thread_id |-> thread_id, exc |-> "ValueError",
          ret |-> EmptyDict, steps |-> <<>>, field_calls |-> 0, llm_calls |-> 0]
    ELSE continue_updated(count, thread_id, state,
                          update_state(st, thread_id, [user_message |-> user_message]),
                          raw, reply)

continue_form_filling(st, count, thread_id, user_message, raw, reply) ==
    continue_read(st, count, thread_id, user_message, get_state(st, thread_id),
                  raw, reply)

(***************************************************************************)
(* The endpoints of api.py.                                                *)
(***************************************************************************)
\* the record a bare entry m of missing_fields is turned into (lines 62-65)
BareRecord(m) ==
    [t |-> "dict", data_id |-> m, field_label |-> "", field_type |-> "",
     field_value |-> "", is_required |-> TRUE, validation_message |-> ""]

\* Faulty variant of normalize_missing: every entry is wrapped, without looking at
\* what the first entry is.
normalize_missing_all(raw_missing) ==
    [i \in DOMAIN raw_missing |-> BareRecord(raw_missing[i])]

\* "Ensure missing_fields is a list of dicts" (lines 59-69 and 110-120): when the
\* first entry is a str, every entry is wrapped; else the list is passed on
normalize_missing(raw_missing) ==
    IF raw_missing # <<>> /\ raw_missing[1].t = "str"
    THEN [i \in DOMAIN raw_missing |-> BareRecord(raw_missing[i])]
    ELSE raw_missing

RECURSIVE ItemsInOrder(_, _)
\* the items of a dict, in the order of the list ids
ItemsInOrder(d, ids) ==
    IF ids = <<>> THEN <<>>
    ELSE (IF Head(ids) \in DOMAIN d
          THEN <<[t |-> "dict", data_id |-> Str(Head(ids)), field_value |-> d[Head(ids)]]>>
          ELSE <<>>) \o ItemsInOrder(d, Tail(ids))

\* "Ensure filled_fields is a list of dicts" (lines 48-57 and 99-108)
normalize_filled(raw_filled) == ItemsInOrder(raw_filled, <<"A", "B">>)

\* FormResponse(...): the fields typed List[dict] hold dicts, current_field is a
\* dict or None
FormResponseValid(missing_fields, current_field) ==
    /\ \A i \in DOMAIN missing_fields : missing_fields[i].t = "dict"
    /\ current_field.t \in {"None", "dict"}

HttpError(code) == [status_code |-> code, body |-> EmptyDict]

\* start_session after start_form_filling returned result; debugger is what the
\* breakpoint of line 70 does: "continue" or "quit" (bdb.BdbQuit)
start_session(result, debugger) ==
    LET filled_fields == normalize_filled(Get(result, "filled_fields", EmptyDict))
        missing_fields == normalize_missing(Get(result, "missing_fields", EmptyList))
        needed == {"thread_id", "response", "status", "current_field",
                   "conversation_history"}
    IN IF debugger = "quit" THEN HttpError(500)
       ELSE IF ~(needed \subseteq DOMAIN result) THEN HttpError(500)
       ELSE IF ~FormResponseValid(missing_fields, result.current_field)
       THEN HttpError(500)
       ELSE [status_code |-> 200,
             body |-> [thread_id |-> result.thread_id, response |-> result.response,
                       status |-> result.status, filled_fields |-> filled_fields,
                       missing_fields |-> missing_fields,
                       current_field |-> result.current_field,
                       next_field |-> result.current_field,
                       conversation_history |-> result.conversation_history]]

\* continue_session after continue_form_filling returned or raised (r.exc)
continue_session(r) ==
    LET result == r.ret
        filled_fields == normalize_filled(Get(result, "filled_fields", EmptyDict))
        missing_fields == normalize_missing(Get(result, "missing_fields", EmptyList))
        needed == {"thread_id", "response", "status"}
    IN IF r.exc = "ValueError" THEN HttpError(404)
       ELSE IF r.exc # "" THEN HttpError(500)
       ELSE IF ~(needed \subseteq DOMAIN result) THEN HttpError(500)
       ELSE IF ~FormResponseValid(missing_fields, None) THEN HttpError(500)
       ELSE [status_code |-> 200,
             body |-> [thread_id |-> result.thread_id, response |-> result.response,
                       status |-> result.status, filled_fields |-> filled_fields,
                       missing_fields |-> missing_fields]]

(***************************************************************************)
(* The endpoints of app_integration.py.  NoId is a request without a       *)
(* conversation_id.                                                        *)
(***************************************************************************)
NoId == 0 - 1

\* FormFillerResponse(...): missing_fields is typed List[str], current_field
\* Optional[str]
FormFillerResponseValid(missing_fields, current_field) ==
    /\ \A i \in DOMAIN missing_fields : missing_fields[i].t = "str"
    /\ current_field.t \in {"None", "str"}

\* start_form_filling_session after start_form_filling returned result
start_form_filling_session(conversation_id, result) ==
    LET needed == {"status", "filled_fields", "missing_fields", "current_field",
                   "response"}
    IN IF ~(needed \subseteq DOMAIN result) THEN HttpError(500)
       ELSE IF ~FormFillerResponseValid(result.missing_fields, result.current_field)
       THEN HttpError(500)
       ELSE [status_code |-> 200,
             body |-> [conversation_id |-> conversation_id, status |-> result.status,
                       filled_fields |-> result.filled_fields,
                       missing_fields |-> result.missing_fields,
                       current_field |-> result.current_field,
                       response |-> result.response]]

\* what the handler of /formfiller/continue leaves and answers
app_answered(run, count, http, exc) ==
    [store |-> run.store, count |-> count, http |-> http, exc |-> exc,
     ret |-> EmptyDict, steps |-> run.steps, field_calls |-> run.field_calls,
     llm_calls |-> run.llm_calls]

\* app_integration.continue_form_filling after the run (lines 84-92)
app_continue_returned(conversation_id, count, run) ==
    IF run.exc # "" THEN app_answered(run, count, HttpError(500), run.exc)
    ELSE IF ~({"status", "filled_fields", "missing_fields", "current_field",
               "response"} \subseteq DOMAIN run.result)
    THEN app_answered(run, count, HttpError(500), "KeyError")
    ELSE IF ~FormFillerResponseValid(run.result.missing_fields,
                                     run.result.current_field)
    THEN app_answered(run, count, HttpError(500), "ValidationError")
    ELSE app_answered(run, count,
                      [status_code |-> 200,
                       body |-> [conversation_id |-> conversation_id,
                                 status |-> run.result.status,
                                 filled_fields |-> run.result.filled_fields,
                                 missing_fields |-> run.result.missing_fields,
                                 current_field |-> run.result.current_field,
                                 response |-> run.result.response]],
                      "")

\* an HTTPException raised inside the try block: it is an Exception, and the
\* except Exception of line 94 answers it with 500
app_raised(st, count, code) ==
    [store |-> st, count |-> count, http |-> HttpError(500), exc |-> "HTTPException",
     ret |-> EmptyDict, steps |-> <<>>, field_calls |-> 0, llm_calls |-> 0]

\* app_integration.continue_form_filling.  The config names a checkpoint_id that is
\* no checkpoint of the thread, so the run starts at START from the input alone;
\* analyze_form then draws a uuid4 for the thread_id the input lacks.
app_continue_form_filling(st, count, conversation_id, message, raw, reply) ==
    IF conversation_id = NoId THEN app_raised(st, count, 400)
    ELSE IF NotSnapshot(get_state(st, conversation_id)) THEN app_raised(st, count, 404)
    ELSE app_continue_returned(
             conversation_id,
             IF analyze_returns(raw) THEN uuid4(count) ELSE count,
             ainvoke_input(st, conversation_id, [user_message |-> message],
                           raw, reply, uuid4(count)))

(***************************************************************************)
(* Inputs.                                                                 *)
(***************************************************************************)
Messages == {<<Tok("m1")>>, <<Tok("m2")>>}

\* a thread_id a client sends that no start_form_filling returned
ClientIds == {0}

Ask == <<Tok("ask")>>

\* filled_fields of an extraction result: any set of field ids, each with a value
FilledChoices == UNION {[S -> {Str("v1")}] : S \in SUBSET FieldIds}

MissingEntries == {Str(id) : id \in FieldIds} \cup {FullRecord(id) : id \in FieldIds}

\* missing_fields of an extraction result: bare ids and records in any order, no id
\* twice
MissingLists ==
    {m \in UNION {[1..n -> MissingEntries] : n \in 0..MaxMissing} :
        \A i, j \in DOMAIN m : i # j => EntryId(m[i]) # EntryId(m[j])}

Payloads ==
    {[filled_fields |-> f, missing_fields |-> m, message |-> Ask] :
        f \in FilledChoices, m \in MissingLists}
    \cup {[message |-> Ask]}

LegacyPayload == [filled_fields |-> EmptyDict, missing_fields |-> <<Str("A")>>,
                  message |-> Ask]

\* an extraction result that carries a formFields entry of its own
OwnFieldsPayload ==
    [filled_fields |-> [id \in {"A"} |-> Str("v1")], missing_fields |-> EmptyList,
     message |-> Ask, formFields |-> <<FormFieldOf("B")>>]

Prose == <<Tok("w"), Tok("ws"), Tok("w")>>

\* the raw outputs of analyze_form_executor: every payload as one JSON object, and
\* the other shapes a model answer takes
RawOutputs ==
    {ObjectText("json", p) : p \in Payloads}
    \cup {Prose,
          <<Tok("FA"), Tok("ws")>> \o ObjectText("json", LegacyPayload),
          <<Tok("bt"), Tok("bt"), Tok("bt"), Tok("w"), Tok("ws")>>
              \o ObjectText("json", LegacyPayload)
              \o <<Tok("ws"), Tok("bt"), Tok("bt"), Tok("bt")>>,
          ObjectText("py", LegacyPayload),
          ObjectText("bad", EmptyDict),
          ObjectText("pyset", EmptyDict),
          <<Tok("w"), Tok("{"), Tok("w"), Tok("ws")>> \o ObjectText("json", LegacyPayload),
          <<Tok("{"), Tok("}")>>,
          ObjectText("json", OwnFieldsPayload)}

AllFilledPayload(fields) ==
    [filled_fields |-> [id \in RegistryIds(fields) |-> Str("v1")],
     missing_fields |-> EmptyList, message |-> Ask]

\* the raw outputs used where several sessions are explored together
RawSmall ==
    {ObjectText("json", LegacyPayload),
     ObjectText("json", AllFilledPayload(<<FormFieldOf("A")>>))}

\* no external call was made
NoCalls == [search |-> "", llm |-> "", text |-> <<>>]

\* the search gives results and analyze_form_executor answers the text
Answered(text) == [search |-> "results", llm |-> "answers", text |-> text]

\* the call of analyze_form_executor raises (a timeout, a transport error)
ExecutorRaises == [search |-> "results", llm |-> "raises", text |-> <<>>]

\* every outcome of the search, with the same answer of analyze_form_executor
SearchCalls ==
    {[search |-> o, llm |-> "answers", text |-> ObjectText("json", LegacyPayload)] :
        o \in SearchOutcomes}

\* the external calls of the first turn of a session
FirstCalls == {Answered(t) : t \in RawOutputs} \cup SearchCalls \cup {ExecutorRaises}

\* the external calls of a later turn
LaterCalls == {Answered(t) : t \in RawSmall} \cup {ExecutorRaises}

(***************************************************************************)
(* The state: store is the checkpointer, uuidCount the number of uuid4     *)
(* values in use, last the record of the last call and what it returned.   *)
(***************************************************************************)
EmptyStore == [k \in {} |-> NoCheckpoint]

NoHttp == [status_code |-> 0, body |-> EmptyDict]

Init ==
    /\ store = EmptyStore
    /\ uuidCount = 0
    /\ last = [op |-> "init", thread_id |-> NoId, known |-> FALSE,
               user_message |-> <<>>, form_fields |-> <<>>, raw |-> NoCalls,
               reply |-> "", exc |-> "", ret |-> EmptyDict, http |-> NoHttp,
               steps |-> <<>>, field_calls |-> 0, llm_calls |-> 0]

\* the exception a call raised, or the one its error dict reports
Failed(r) ==
    IF r.exc # "" THEN r.exc
    ELSE IF "error" \in DOMAIN r.ret THEN r.ret.error
    ELSE ""

\* the record of a call: the external calls and the answer of the field collaborator
\* are recorded when the run called search_tool, resp. ran process_field_input
Called(op, thread_id, known, user_message, form_fields, raw, reply, r, http) ==
    [op |-> op, thread_id |-> thread_id, known |-> known,
     user_message |-> user_message, form_fields |-> form_fields,
     raw |-> IF r.llm_calls > 0 \/ Failed(r) = "ToolError" THEN raw ELSE NoCalls,
     reply |-> IF \E i \in DOMAIN r.steps : r.steps[i].node = "process_field_input"
               THEN reply ELSE "",
     exc |-> r.exc, ret |-> r.ret, http |-> http,
     steps |-> r.steps, field_calls |-> r.field_calls, llm_calls |-> r.llm_calls]

\* the state after a call that returned r
Commit(op, thread_id, known, user_message, form_fields, raw, reply, r, http) ==
    /\ store' = r.store
    /\ uuidCount' = r.count
    /\ last' = Called(op, thread_id, known, user_message, form_fields, raw, reply,
                      r, http)

\* graph.start_form_filling called with a message and the form fields
StartTurn(in) ==
    /\ uuid4(uuidCount) <= in.cap
    /\ \E m \in Messages, fields \in in.registries, raw \in in.raws,
          reply \in in.replies :
        Commit("start_form_filling", uuid4(uuidCount), FALSE, m, fields, raw, reply,
               start_form_filling(store, uuidCount, m, fields, raw, reply), NoHttp)

ContinueDone(in, op, tid, m, raw, reply, r, http) ==
    /\ r.count <= in.cap
    /\ Commit(op, tid, tid \in DOMAIN store, m, <<>>, raw, reply, r, http)

\* graph.continue_form_filling called with a thread_id and a message
ContinueTurn(in) ==
    \E tid \in DOMAIN store \cup in.clients, m \in Messages, raw \in in.again,
       reply \in in.replies :
        ContinueDone(in, "continue_form_filling", tid, m, raw, reply,
                     continue_form_filling(store, uuidCount, tid, m, raw, reply),
                     NoHttp)

ApiStartDone(m, fields, raw, reply, debugger, r) ==
    Commit("start_session", r.thread_id, FALSE, m, fields, raw, reply, r,
           start_session(r.ret, debugger))

\* POST /start of api.py
ApiStart(in) ==
    /\ uuid4(uuidCount) <= in.cap
    /\ \E m \in Messages, fields \in in.registries, raw \in in.raws,
          reply \in in.replies, debugger \in {"continue", "quit"} :
        ApiStartDone(m, fields, raw, reply, debugger,
                     start_form_filling(store, uuidCount, m, fields, raw, reply))

ApiContinueDone(in, tid, m, raw, reply, r) ==
    ContinueDone(in, "continue_session", tid, m, raw, reply, r, continue_session(r))

\* POST /continue of api.py
ApiContinue(in) ==
    \E tid \in DOMAIN store \cup in.clients, m \in Messages, raw \in in.again,
       reply \in in.replies :
        ApiContinueDone(in, tid, m, raw, reply,
                        continue_form_filling(store, uuidCount, tid, m, raw, reply))

AppStartDone(own, m, fields, raw, reply, r) ==
    Commit("start_form_filling_session", r.thread_id, FALSE, m, fields, raw, reply, r,
           start_form_filling_session(own, r.ret))

\* the conversation_id of /formfiller/start: the one of the request, or a uuid4
OwnId(cid, count) == IF cid = NoId THEN uuid4(count) ELSE cid

\* POST /formfiller/start of app_integration.py: the conversation_id is the one of
\* the request or a uuid4 of its own, the session gets the thread_id that
\* start_form_filling draws
AppStart(in) ==
    \E cid \in ClientIds \cup {NoId} :
        /\ uuid4(IF cid = NoId THEN uuid4(uuidCount) ELSE uuidCount) <= in.cap
        /\ \E m \in Messages, fields \in in.registries, raw \in in.raws,
              reply \in in.replies :
            AppStartDone(OwnId(cid, uuidCount), m, fields, raw, reply,
                         start_form_filling(
                             store, IF cid = NoId THEN uuid4(uuidCount) ELSE uuidCount,
                             m, fields, raw, reply))

AppContinueDone(in, cid, m, raw, reply, r) ==
    ContinueDone(in, "app_continue_form_filling", cid, m, raw, reply, r, r.http)

\* POST /formfiller/continue of app_integration.py
AppContinue(in) ==
    \E cid \in DOMAIN store \cup in.clients \cup {NoId}, m \in Messages,
       raw \in in.again, reply \in in.replies :
        AppContinueDone(in, cid, m, raw, reply,
                        app_continue_form_filling(store, uuidCount, cid, m, raw, reply))

Handlers(in) ==
    \/ StartTurn(in)
    \/ ContinueTurn(in)
    \/ ApiStart(in)
    \/ ApiContinue(in)
    \/ AppStart(in)
    \/ AppContinue(in)

\* one session from its start on: every raw output of the extraction collaborator
\* and every answer of the field collaborator in its first turn
OneSession ==
    [cap |-> 1, registries |-> Registries, raws |-> FirstCalls, again |-> LaterCalls,
     replies |-> ReplyKinds, clients |-> {}]

Next == Handlers(OneSession)

Spec == Init /\ [][Next]_vars

\* up to MaxThreads sessions, and the threads a client names itself
ManySessions ==
    [cap |-> MaxThreads, registries |-> {<<FormFieldOf("A")>>},
     raws |-> {Answered(t) : t \in RawSmall}, again |-> {Answered(t) : t \in RawSmall},
     replies |-> {"success"}, clients |-> ClientIds]

StoreNext == Handlers(ManySessions)

StoreSpec == Init /\ [][StoreNext]_vars

(***************************************************************************)
(* The missing-fields normalization of api.py as a function on lists.      *)
(***************************************************************************)
\* longest list handed to normalize_missing
MaxList == 3

NormEntries == MissingEntries \cup {BareRecord(Str(id)) : id \in FieldIds}

NormInputs == UNION {[1..n -> NormEntries] : n \in 0..MaxList}

NormInit ==
    /\ store = EmptyStore
    /\ uuidCount = 0
    /\ \E x \in NormInputs : last = [op |-> "list", arg |-> x, once |-> x, twice |-> x]

\* the list is normalized, and the result normalized again
Normalize ==
    /\ last.op = "list"
    /\ last' = [op |-> "normalized", arg |-> last.arg,
                once |-> normalize_missing(last.arg),
                twice |-> normalize_missing(normalize_missing(last.arg))]
    /\ UNCHANGED <<store, uuidCount>>

NormSpec == NormInit /\ [][Normalize]_vars

(***************************************************************************)
(* Properties.                                                             *)
(***************************************************************************)
StartOps == {"start_form_filling", "start_session", "start_form_filling_session"}

\* the session state of a thread
Session(t) == store[t].values

FilledIds(values) == DOMAIN Get(values, "filled_fields", EmptyDict)

MissingIdsOf(values) == MissingIds(Get(values, "missing_fields", EmptyList))

\* the steps of the last call that ran process_field_input with a field to ask
AskSteps ==
    {i \in DOMAIN last.steps :
        /\ last.steps[i].node = "process_field_input"
        /\ Truthy(last.steps[i].pre.current_field)
        /\ last.steps[i].pre.missing_fields # <<>>}

\* what the parser makes of the raw output of the last call
LastParsed == extract_json_from_output(last.raw.text)

\* C1: in every session state no field id is both a key of filled_fields and an
\* entry of missing_fields, whatever the extraction collaborator returned.
C1_MutualExclusion ==
    \A t \in DOMAIN store : FilledIds(Session(t)) \cap MissingIdsOf(Session(t)) = {}

\* C2: when the raw output is prose without a {...} block, analyze_form ends with
\* status awaiting_info, response_message equal to the raw text, and filled_fields
\* and missing_fields as they were before the turn.
C2_ProseAsksForInfo ==
    (/\ last.llm_calls > 0
     /\ last.raw.llm = "answers"
     /\ RegexBlock(CleanOutput(last.raw.text)) = <<>>)
    => /\ last.steps # <<>>
       /\ last.steps[1].node = "analyze_form"
       /\ last.steps[1].post.status = "awaiting_info"
       /\ last.steps[1].post.response_message = last.raw.text
       /\ last.steps[1].post.filled_fields = last.steps[1].pre.filled_fields
       /\ last.steps[1].post.missing_fields = last.steps[1].pre.missing_fields

\* C3: when process_field_input runs with current_field A, missing_fields holding
\* only A, and the field collaborator answers success with a value, the resulting
\* state is completed, filled_fields holds A with that value and missing_fields is
\* empty.
C3_SuccessCompletes ==
    \A i \in AskSteps :
        (/\ last.reply = "success"
         /\ last.steps[i].pre.current_field.t = "dict"
         /\ Len(last.steps[i].pre.missing_fields) = 1
         /\ last.steps[i].pre.current_field = last.steps[i].pre.missing_fields[1])
        => /\ last.steps[i].post.status = "completed"
           /\ last.steps[i].post.missing_fields = <<>>
           /\ EntryId(last.steps[i].pre.current_field)
                  \in DOMAIN last.steps[i].post.filled_fields

\* the extraction output of the last call reports every field of the registry as
\* filled and no field as missing
AllReportedFilled ==
    /\ last.op \in StartOps
    /\ last.llm_calls > 0
    /\ last.raw.llm = "answers"
    /\ LastParsed.t = "dict"
    /\ "filled_fields" \in DOMAIN LastParsed.d
    /\ DOMAIN LastParsed.d.filled_fields = RegistryIds(last.form_fields)
    /\ Get(LastParsed.d, "missing_fields", EmptyList) = <<>>

\* C4: when the extraction output reports every one of the N fields of the registry
\* as filled and no field as missing, the session state after the start turn has
\* status completed and an empty missing_fields.
C4_AllFilledCompletes ==
    AllReportedFilled
    => /\ last.thread_id \in DOMAIN store
       /\ Session(last.thread_id).status = "completed"
       /\ Session(last.thread_id).missing_fields = <<>>

\* C4 witness: a start turn on the registry of two fields whose extraction output
\* fills both.
C4_Witness ==
    /\ AllReportedFilled
    /\ Len(last.form_fields) = 2
    /\ Session(last.thread_id).status = "completed"

\* C5: a run of process_field_input on an outstanding field for which the field
\* collaborator answers success = false, or an answer that cannot be parsed, leaves
\* current_field and missing_fields as they were: the same field is asked again.
C5_FailureKeepsField ==
    \A i \in AskSteps :
        last.reply \in {"failure", "unparsable"}
        => /\ last.steps[i].post.current_field = last.steps[i].pre.current_field
           /\ last.steps[i].post.missing_fields = last.steps[i].pre.missing_fields

\* C5 witness: process_field_input has run on an outstanding field, two fields being
\* missing, with the collaborator answering success = false.
C5_Witness ==
    \E i \in AskSteps :
        /\ last.reply = "failure"
        /\ Len(last.steps[i].pre.missing_fields) = 2
        /\ last.steps[i].post.status = "awaiting_info"

\* a call of start_form_filling has just been made
Started == last'.op \in StartOps /\ last' # last

C7_UnknownThreadFails ==
    (last.op = "continue_form_filling" /\ ~last.known)
    => /\ last.exc = "ValueError"
       /\ last.thread_id \notin DOMAIN store

\* C8: both continue endpoints answer a thread_id without a session with 404, and
\* not with the 500 of an internal failure.
C8_UnknownThreadIs404 ==
    (/\ last.op \in {"continue_session", "app_continue_form_filling"}
     /\ ~last.known
     /\ last.thread_id # NoId)
    => last.http.status_code = 404

\* C9: with the registry of one required field A and the extraction output
\* filled_fields = {}, missing_fields = ["A"], the session state after the start turn
\* has missing_fields equal to one full record for A (required, with empty label,
\* type, value and validation_message) and status awaiting_info.
C9_LegacyListNormalized ==
    (/\ last.op \in StartOps
     /\ last.form_fields = <<FormFieldOf("A")>>
     /\ last.llm_calls > 0
     /\ last.raw.llm = "answers"
     /\ LastParsed.t = "dict"
     /\ LastParsed.d = LegacyPayload)
    => /\ Session(last.thread_id).status = "awaiting_info"
       /\ Session(last.thread_id).missing_fields = <<BareRecord(Str("A"))>>

AllBare(x) == \A i \in DOMAIN x : x[i].t = "str"

AllRecords(x) == \A i \in DOMAIN x : x[i].t = "dict"

\* C10: for every list whose entries are all bare ids or all full records,
\* normalizing the normalized list gives the normalized list again, and a list of
\* full records is returned unchanged.
C10_NormalizeIdempotent ==
    (last.op = "normalized" /\ (AllBare(last.arg) \/ AllRecords(last.arg)))
    => /\ last.twice = last.once
       /\ AllRecords(last.once)
       /\ AllRecords(last.arg) => last.once = last.arg

\* C10 witness: a list of two bare ids has been normalized into two records.
C10_Witness ==
    /\ last.op = "normalized"
    /\ Len(last.arg) = 2
    /\ AllBare(last.arg)
    /\ last.once # last.arg
    /\ last.twice = last.once

\* the turn ended with an error for its caller: an exception, or the error dict
Surfaced(call) == call.exc # "" \/ "error" \in DOMAIN call.ret

\* C11: a turn in which the call of the extraction collaborator raises ends with an
\* error for the caller and leaves the session state of every thread that had one
\* as it was before the turn: nothing, user_message included, is written.
C11_FailedCallWritesNothing ==
    [][last'.raw.llm = "raises"
       => /\ Surfaced(last')
          /\ \A t \in DOMAIN store :
                 t \in DOMAIN store' /\ store'[t].values = store[t].values]_vars

\* the search_results handed to analyze_form_executor in the last call (line 137)
LastContext == search_tool(last.raw.search).text

\* C12: when the search fails (no client configured, an AzureError, or an exception
\* leaving the tool), the turn is not aborted: the extraction collaborator is
\* invoked, and the context string it is given is empty.
C12_SearchFailureGivesEmptyContext ==
    last.raw.search \in {"unconfigured", "error", "raises"}
    => /\ last.llm_calls > 0
       /\ last.steps # <<>>
       /\ LastContext = <<>>

\* the field ids a session state names in filled_fields, missing_fields and
\* current_field
NamedIds(values) ==
    FilledIds(values) \cup MissingIdsOf(values)
        \cup (IF Truthy(Get(values, "current_field", None))
              THEN {EntryId(values.current_field)} ELSE {})

\* C13: a field id of the extraction output that is not in the form_fields of the
\* session never appears in the filled_fields, missing_fields or current_field of
\* the session state.
C13_UnknownFieldsDropped ==
    \A t \in DOMAIN store :
        "form_fields" \in DOMAIN Session(t)
        => NamedIds(Session(t)) \subseteq RegistryIds(Session(t).form_fields)

\* the calls that run continue_form_filling of graph.py
ContinueOps == {"continue_form_filling", "continue_session"}

\* the session state of the thread of the call just made was completed before it
OnCompleted ==
    /\ last'.op \in ContinueOps
    /\ last'.thread_id \in DOMAIN store
    /\ Get(Session(last'.thread_id), "status", "") = "completed"

RaceCalls == {1, 2}

\* continue_form_filling up to the await, lines 504-516: the store after update_state
continue_begun(st, thread_id, user_message) ==
    update_state(st, thread_id, [user_message |-> user_message])

\* the run of ainvoke(None, config) awaits the extraction collaborator
Suspends(st, thread_id) == Checkpoint(st, thread_id).next = "analyze_form"

\* continue_form_filling from the answer of the collaborator on: the run continues
\* on the checkpoint cp it had loaded, then lines 520-530
continue_resumed(st, count, thread_id, state, cp, raw, reply) ==
    continue_returned(count, thread_id, uuid4(count), state,
                      ainvoke_resume(st, thread_id, cp, raw, reply, uuid4(count)))

\* the thread the two calls name: one that start_form_filling created, its first
\* turn having failed or succeeded
RaceStarts ==
    {[store |-> start_form_filling(EmptyStore, 0, <<Tok("m0")>>,
                                   <<FormFieldOf("A")>>, raw, "success").store,
      count |-> 1, thread_id |-> 1] : raw \in LaterCalls}

RaceCall(m, raw, st) ==
    [pc |-> "idle", user_message |-> m, raw |-> raw,
     state |-> get_state(st, 0), cp |-> NoCheckpoint]

RaceInit ==
    \E s \in RaceStarts, raw1, raw2 \in LaterCalls :
        /\ store = s.store
        /\ uuidCount = s.count
        /\ last = [op |-> "race", thread_id |-> s.thread_id, store0 |-> s.store,
                   count0 |-> s.count,
                   calls |-> <<RaceCall(<<Tok("m1")>>, raw1, s.store),
                               RaceCall(<<Tok("m2")>>, raw2, s.store)>>]

RaceSet(c, pc, state, cp) ==
    last' = [last EXCEPT !.calls[c] = [@ EXCEPT !.pc = pc, !.state = state, !.cp = cp]]

RaceCommit(c, r) ==
    /\ store' = r.store
    /\ uuidCount' = r.count
    /\ RaceSet(c, "done", last.calls[c].state, last.calls[c].cp)

\* a call starts: it runs to its end when no step that awaits is pending, else it is
\* suspended in analyze_form after update_state
RaceBegin(c) ==
    /\ last.calls[c].pc = "idle"
    /\ IF Suspends(continue_begun(store, last.thread_id, last.calls[c].user_message),
                   last.thread_id)
       THEN /\ store' = continue_begun(store, last.thread_id, last.calls[c].user_message)
            /\ uuidCount' = uuidCount
            /\ RaceSet(c, "awaiting", get_state(store, last.thread_id),
                       Checkpoint(store', last.thread_id))
       ELSE RaceCommit(c, continue_form_filling(store, uuidCount, last.thread_id,
                                                last.calls[c].user_message,
                                                last.calls[c].raw, "success"))

\* the extraction collaborator answers a suspended call
RaceResume(c) ==
    /\ last.calls[c].pc = "awaiting"
    /\ RaceCommit(c, continue_resumed(store, uuidCount, last.thread_id,
                                      last.calls[c].state, last.calls[c].cp,
                                      last.calls[c].raw, "success"))

RaceNext == \E c \in RaceCalls : RaceBegin(c) \/ RaceResume(c)

RaceSpec == RaceInit /\ [][RaceNext]_vars

\* the store after the two calls made one after the other, a before b
SerialAfter(first, b) ==
    continue_form_filling(first.store, first.count, last.thread_id,
                          last.calls[b].user_message, last.calls[b].raw, "success").store

Serial(a, b) ==
    SerialAfter(continue_form_filling(last.store0, last.count0, last.thread_id,
                                      last.calls[a].user_message, last.calls[a].raw,
                                      "success"), b)

\* C15: two concurrent calls of continue_form_filling for one thread_id are
\* serialized: when both have ended, the stored state of the thread is the one that
\* making the two calls one after the other, in one of the two orders, leaves.
C15_ConcurrentTurnsSerialized ==
    (\A c \in RaceCalls : last.calls[c].pc = "done")
    => \/ store[last.thread_id].values = Serial(1, 2)[last.thread_id].values
       \/ store[last.thread_id].values = Serial(2, 1)[last.thread_id].values

\* the call just made
Turned == last'.op \in StartOps \cup ContinueOps \cup {"app_continue_form_filling"}

ReturnedFields == {"status", "filled_fields", "missing_fields", "current_field"}

C18_ParserResultIsRecord ==
    (last.llm_calls > 0 /\ last.raw.llm = "answers")
        => /\ LastParsed.t = "dict"
           /\ \E i \in DOMAIN last.steps : last.steps[i].node = "analyze_form"

\* the step the Transition Controller is to pick for a status ("__end__": the run ends)
StepFor(status) ==
    IF status = "completed" THEN "__end__"
    ELSE IF status = "awaiting_info" THEN "process_field_input"
    ELSE "analyze_form"

\* C19: after every process_field_input step of a turn, route_next_step names the end
\* of the run for status completed, process_field_input for awaiting_info and
\* analyze_form for in_progress, and what it names is END or a node of the graph.
C19_RoutesToExistingStep ==
    \A i \in DOMAIN last.steps :
        (/\ last.steps[i].node = "process_field_input"
         /\ "status" \in DOMAIN last.steps[i].post)
            => /\ route_next_step(last.steps[i].post) \in GraphNodes \cup {"__end__"}
               /\ route_next_step(last.steps[i].post)
                      = StepFor(last.steps[i].post.status)

\* the last entry of a conversation history
LastEntry(history) == history[Len(history)]

\* C20: when the steps of a start turn have run, the dict start_form_filling returns
\* carries under response the response_message analyze_form composed in the turn,
\* which is the content of the last assistant entry of the returned
\* conversation_history.
C20_StartReturnsResponse ==
    (/\ last.op = "start_form_filling"
     /\ \E i \in DOMAIN last.steps : last.steps[i].node = "analyze_form")
        => /\ "response" \in DOMAIN last.ret
           /\ "conversation_history" \in DOMAIN last.ret
           /\ last.ret.response = last.steps[1].post.response_message
           /\ last.ret.conversation_history # <<>>
           /\ LastEntry(last.ret.conversation_history).role = "assistant"
           /\ LastEntry(last.ret.conversation_history).content = last.ret.response

\* the state a step of the last turn returned
Post(i) == last.steps[i].post

\* missing_fields as analyze_form_executor produced them in the last turn
ProducedMissing == Get(LastParsed.d, "missing_fields", EmptyList)

C22_ResponseMessageByStatus ==
    \A i \in DOMAIN last.steps :
        last.steps[i].node = "analyze_form"
            => Post(i).response_message
                   = (IF Post(i).status = "completed" THEN CompletionMessage
                      ELSE Get(LastParsed.d, "message", <<>>))

\* a is a prefix of b
IsPrefix(a, b) == Len(a) <= Len(b) /\ SubSeq(b, 1, Len(a)) = a

\* the conversation_history of a state, empty when it has none
History(values) == Get(values, "conversation_history", EmptyList)

\* the two entries analyze_form appends in a step
TurnEntries(step) ==
    <<[role |-> "user", content |-> step.pre.user_message],
      [role |-> "assistant", content |-> step.post.response_message]>>

\* a step leaves the history it found as a prefix of the one it returns; analyze_form
\* appends the user message and then the assistant response_message
StepAppends(step) ==
    /\ IsPrefix(History(step.pre), History(step.post))
    /\ step.node = "analyze_form"
           => History(step.post) = History(step.pre) \o TurnEntries(step)

C24_OneStepPerTurn ==
    /\ Len(last.steps) <= 1
    /\ last.op \in StartOps
           => \A i \in DOMAIN last.steps : last.steps[i].node = "analyze_form"
    /\ \A i, j \in DOMAIN last.steps :
           (last.steps[i].node = "analyze_form"
            /\ last.steps[j].node = "process_field_input")
               => last.steps[j].pre.user_message # last.steps[i].pre.user_message

(***************************************************************************)
(* Progress of one session: the turns of graph.py on a session whose field *)
(* collaborator reports success whenever it is asked.                      *)
(***************************************************************************)
Cooperative ==
    [cap |-> 1, registries |-> Registries, raws |-> FirstCalls, again |-> LaterCalls,
     replies |-> {"success"}, clients |-> {}]

ProgressNext == StartTurn(Cooperative) \/ ContinueTurn(Cooperative)

ProgressSpec == Init /\ [][ProgressNext]_vars

\* a stored session waits for information on fields given as full records
AwaitingRecords(t) ==
    /\ "status" \in DOMAIN Session(t)
    /\ Session(t).status = "awaiting_info"
    /\ Session(t).missing_fields # <<>>
    /\ \A i \in DOMAIN Session(t).missing_fields :
           Session(t).missing_fields[i].t = "dict"

\* the step is a continue turn on the thread t
ContinuedOn(t) ==
    /\ last' # last
    /\ last'.op = "continue_form_filling"
    /\ last'.thread_id = t

\* C25: every continue turn on a session in awaiting_info whose field collaborator
\* reports success for the current field strictly decreases the number of missing
\* fields (so that a user who keeps sending turns reaches status completed with no
\* missing field).
C25_SuccessTurnDecreasesMissing ==
    [][\A t \in DOMAIN store :
           (AwaitingRecords(t) /\ ContinuedOn(t))
               => /\ t \in DOMAIN store'
                  /\ Len(store'[t].values.missing_fields)
                         < Len(store[t].values.missing_fields)]_vars

(***************************************************************************)
(* analyze_form as a function of the state it is given: the step applied   *)
(* to the initial state of a session, and again, with the next message, to *)
(* the state it returned.  The extraction results are the consistent ones: *)
(* no field id is both filled and missing in one result.                   *)
(***************************************************************************)
\* most applications of analyze_form in a row
MaxTurns == 2

ConsistentPayloads ==
    {p \in Payloads : /\ "filled_fields" \in DOMAIN p
                      /\ DOMAIN p.filled_fields \cap MissingIds(p.missing_fields) = {}}

\* the state start_form_filling builds (lines 461-472), as the channels hold it
InitialState(user_message, form_fields) ==
    ChannelWrites([user_message |-> user_message, form_fields |-> form_fields,
                   filled_fields |-> EmptyDict, missing_fields |-> EmptyList,
                   current_field |-> None, conversation_history |-> EmptyList,
                   status |-> "in_progress", response |-> <<>>, thread_id |-> 1])

MergeInit ==
    /\ store = EmptyStore
    /\ uuidCount = 0
    /\ last = [op |-> "state", turns |-> 0, prior |-> EmptyDict, output |-> EmptyDict,
               state |-> InitialState(<<Tok("m1")>>,
                                      <<FormFieldOf("A"), FormFieldOf("B")>>)]

\* analyze_form has returned r for the state and the extraction result p
Analyzed(p, r) ==
    /\ r.exc = ""
    /\ last' = [op |-> "analyzed", turns |-> last.turns + 1, prior |-> last.state,
                output |-> p, state |-> ApplyWrites(last.state, r.out)]
    /\ UNCHANGED <<store, uuidCount>>

\* one more turn of analyze_form on the state
Analyze ==
    /\ last.op \in {"state", "analyzed"}
    /\ last.turns < MaxTurns
    /\ \E p \in ConsistentPayloads :
           Analyzed(p, analyze_form(last.state, Answered(ObjectText("json", p)),
                                    "success", 1))

MergeSpec == MergeInit /\ [][Analyze]_vars

\* the field ids an extraction result mentions
Mentioned(p) == DOMAIN p.filled_fields \cup MissingIds(p.missing_fields)

\* C26: analyze_form merges the extraction result into the state it is given: an id
\* returned as filled is not missing afterwards, an id returned as missing is not
\* filled afterwards, and an id of the prior filled_fields or missing_fields that the
\* result does not mention is filled with the same value, resp. missing, afterwards.
C26_MergePerFieldId ==
    last.op = "analyzed"
        => /\ \A id \in DOMAIN last.output.filled_fields :
                  id \notin MissingIds(last.state.missing_fields)
           /\ \A id \in MissingIds(last.output.missing_fields) :
                  id \notin DOMAIN last.state.filled_fields
           /\ \A id \in DOMAIN last.prior.filled_fields \ Mentioned(last.output) :
                  /\ id \in DOMAIN last.state.filled_fields
                  /\ last.state.filled_fields[id] = last.prior.filled_fields[id]
           /\ \A id \in MissingIds(last.prior.missing_fields) \ Mentioned(last.output) :
                  id \in MissingIds(last.state.missing_fields)

(***************************************************************************)
(* process_field_input as a function of the state it is given: a session  *)
(* state with any missing_fields, with no current field or with the first  *)
(* missing one, and any answer the field collaborator would give.          *)
(***************************************************************************)
\* the current fields a state with the missing fields m is asked with
CurrentChoices(m) == {None} \cup (IF m = <<>> THEN {FullRecord("A")} ELSE {m[1]})

FieldStates ==
    {Merge(InitialState(<<Tok("m1")>>, <<FormFieldOf("A"), FormFieldOf("B")>>),
           [missing_fields |-> m, current_field |-> c, status |-> s,
            response_message |-> Ask]) :
        m \in MissingLists, c \in {None, FullRecord("A"), Str("B"), FullRecord("B")},
        s \in {"awaiting_info", "completed"}}

FieldInit ==
    /\ store = EmptyStore
    /\ uuidCount = 0
    /\ \E s \in FieldStates, reply \in ReplyKinds :
           /\ s.current_field \in CurrentChoices(s.missing_fields)
           /\ last = [op |-> "field", pre |-> s, reply |-> reply, post |-> s,
                      field_calls |-> 0]

\* process_field_input has returned r
Interrogated(r) ==
    /\ r.exc = ""
    /\ last' = [last EXCEPT !.op = "interrogated",
                            !.post = ApplyWrites(last.pre, r.out),
                            !.field_calls = r.field_calls]
    /\ UNCHANGED <<store, uuidCount>>

\* the step runs on the state
Interrogate ==
    /\ last.op = "field"
    /\ Interrogated(process_field_input(last.pre, last.reply, 1))

FieldSpec == FieldInit /\ [][Interrogate]_vars

\* there is nothing to ask for in a state
NothingToAsk(state) == ~Truthy(state.current_field) \/ state.missing_fields = <<>>

\* C27: when current_field is absent or missing_fields is empty, process_field_input
\* does not call the field collaborator and returns the state it was given with the
\* status recomputed: completed exactly when missing_fields is empty.
C27_NoOpRecomputesStatus ==
    (last.op = "interrogated" /\ NothingToAsk(last.pre))
        => /\ last.field_calls = 0
           /\ last.post = [last.pre EXCEPT
                              !.status = IF last.pre.missing_fields = <<>>
                                         THEN "completed" ELSE "awaiting_info"]

\* C27 witness: the step ran on a state with no current field, a missing field and
\* the status completed, and returned it with the status awaiting_info.
C27_Witness ==
    /\ last.op = "interrogated"
    /\ last.pre.current_field = None
    /\ last.pre.missing_fields # <<>>
    /\ last.pre.status = "completed"
    /\ last.post.status = "awaiting_info"

\* the step ran on a state that asks for its first missing field, a full record
AskedRecord ==
    /\ last.op = "interrogated"
    /\ last.pre.status = "awaiting_info"
    /\ last.pre.missing_fields # <<>>
    /\ last.pre.current_field = last.pre.missing_fields[1]
    /\ last.pre.current_field.t = "dict"

\* C28: when process_field_input runs on an outstanding current field and the field
\* collaborator reports no success, or its output cannot be parsed, the state it
\* returns has status awaiting_info, the response_message is the message the
\* collaborator returned (the default clarification when there is none), and after
\* a reported failure the current field carries the returned validation_message.
C28_FailureAsksAgain ==
    (AskedRecord /\ last.reply \in {"failure", "unparsable"})
        => /\ last.post.status = "awaiting_info"
           /\ last.post.response_message
                  = Get(FieldFormData(last.reply, last.pre.current_field),
                        "message", DefaultClarification)
           /\ last.reply = "failure"
                  => last.post.current_field.validation_message
                         = FieldFormData(last.reply, last.pre.current_field)
                               .current_field_details.validation_message

\* the field ids the step moved from missing_fields to filled_fields
Moved ==
    {id \in MissingIds(last.pre.missing_fields) :
        /\ id \notin MissingIds(last.post.missing_fields)
        /\ id \in DOMAIN last.post.filled_fields}

BraceProse == <<Tok("w"), Tok("{"), Tok("w"), Tok("ws")>>

\* the raw output of the last turn is such prose followed by more text
AfterBraceProse ==
    /\ last.llm_calls > 0
    /\ last.raw.llm = "answers"
    /\ Len(last.raw.text) > Len(BraceProse)
    /\ SubSeq(last.raw.text, 1, Len(BraceProse)) = BraceProse

\* C30: for a raw output that is one JSON object preceded by prose with a brace
\* character in it, extract_json_from_output gives what it gives for the object
\* alone.
C30_BalancedBlockExtracted ==
    AfterBraceProse
        => LastParsed
               = extract_json_from_output(
                     SubSeq(last.raw.text, Len(BraceProse) + 1, Len(last.raw.text)))

\* C31: for every list of bare ids and records in any order, the normalization turns
\* each bare id into the record with that id, empty label, type and value, required
\* and an empty validation_message, and leaves each record as it is.
C31_MixedListNormalized ==
    last.op = "normalized"
        => /\ Len(last.once) = Len(last.arg)
           /\ \A i \in DOMAIN last.arg :
                  last.once[i] = (IF last.arg[i].t = "str" THEN BareRecord(last.arg[i])
                                  ELSE last.arg[i])

\* the states route_next_step was applied to in the last turn
Routed == {Post(i) : i \in {j \in DOMAIN last.steps :
                                last.steps[j].node = "process_field_input"}}

\* the session states at hand: the stored ones and those of the steps of the turn
StatesAtHand ==
    {s \in {Session(t) : t \in DOMAIN store} \cup Routed : "status" \in DOMAIN s}

\* C32: route_next_step depends on the status only: for two states with the same
\* status it names the same target, the one it names for a state that has nothing
\* but that status, and the state it was applied to after the last step of a turn
\* is stored as that step returned it.
C32_RouteDependsOnStatusOnly ==
    /\ \A a, b \in StatesAtHand :
           a.status = b.status => route_next_step(a) = route_next_step(b)
    /\ \A a \in StatesAtHand :
           route_next_step(a) = route_next_step([status |-> a.status])
    /\ (Routed # {} /\ last.thread_id \in DOMAIN store)
           => Session(last.thread_id) = Post(Len(last.steps))

\* C32 witness: route_next_step was applied in the last turn, and two stored
\* sessions have the same status and different user messages.
C32_Witness ==
    /\ Routed # {}
    /\ \E t, u \in DOMAIN store :
           /\ Session(t) \in StatesAtHand
           /\ Session(u) \in StatesAtHand
           /\ Session(t).status = Session(u).status
           /\ Session(t).status = "completed"
           /\ Session(t).user_message # Session(u).user_message

\* the state stored under t carries t as its thread_id
HasOwnId(st, t) ==
    /\ t \in DOMAIN st
    /\ "thread_id" \in DOMAIN st[t].values
    /\ st[t].values.thread_id = t

\* the turn is on a new session, or on a session that carries its key
OnOwnSession ==
    /\ last' # last
    /\ last'.op \in StartOps \/ HasOwnId(store, last'.thread_id)

C34_ExtractionCalledOnce ==
    /\ last.llm_calls <= 1
    /\ last.raw.llm = "raises"
           => /\ last.llm_calls = 1
              /\ last.steps = <<>>
              /\ Surfaced(last)

\* C34 witness: a continue turn resumed analyze_form and the call of
\* analyze_form_executor raised.
C34_Witness ==
    /\ last.op \in ContinueOps
    /\ last.known
    /\ last.raw.llm = "raises"
    /\ last.llm_calls = 1

\* the form_fields of a state, empty when it has none
FormFields(values) == Get(values, "form_fields", EmptyList)

StepsOf(node) == {i \in DOMAIN last.steps : last.steps[i].node = node}

\* C36: a graph run executes analyze_form at most once and process_field_input at
\* most once after it, and ends without reaching the recursion limit: no state that
\* process_field_input returns has the status in_progress, so route_next_step never
\* names analyze_form.
C36_RunTerminates ==
    /\ Cardinality(StepsOf("analyze_form")) <= 1
    /\ Cardinality(StepsOf("process_field_input")) <= 1
    /\ Failed(last) # "GraphRecursionError"
    /\ \A i \in StepsOf("process_field_input") :
           /\ Post(i).status # "in_progress"
           /\ route_next_step(Post(i)) # "analyze_form"

\* C36 witness: a run went through analyze_form and process_field_input and ended
\* with no step pending.
C36_Witness ==
    /\ Len(last.steps) = 2
    /\ last.steps[1].node = "analyze_form"
    /\ last.steps[2].node = "process_field_input"
    /\ last.thread_id \in DOMAIN store
    /\ store[last.thread_id].next = ""

\* C37: the endpoint /formfiller/start answers with a conversation_id that is the
\* thread_id under which start_form_filling stored the session of the call.
C37_StartReturnsSessionKey ==
    last.op = "start_form_filling_session"
        => /\ last.http.status_code = 200
           /\ last.http.body.conversation_id = last.thread_id
           /\ HasOwnId(store, last.http.body.conversation_id)

====
